---- MODULE Spec2Model ----
(***************************************************************************)
(* The routing-profile state machine of the MediaMap component             *)
(* (frontend/components/media/MediaMap.vue): the module-level profile      *)
(* variables, the map's cycle layer, the directions sessions, the two      *)
(* custom controls and the DOM listeners that drive them.                  *)
(*                                                                         *)
(* The browser is single threaded: every action below is one event-loop    *)
(* task (a lifecycle hook, a map callback, a promise callback or the       *)
(* dispatch of one user gesture), run to completion.                       *)
(***************************************************************************)
EXTENDS Integers, Sequences, FiniteSets, TLC

\* ------------------------------------------------------------------ bounds

\* Directions sessions ever constructed (one at load, one per toggle).
MaxSessions == 4

\* Route segments a session may have drawn.
MaxSegments == 2

\* ------------------------------------------------------- program constants

\* window.innerWidth < 768 in the profile-switch control's onAdd.
SwitchBreakpoint == 768

\* window.innerWidth < 768 in the clear-directions control's onAdd.
ClearBreakpoint == 768

\* Viewport widths the window may take: both sides of the breakpoint.
Widths == {767, 768, 1024}

\* What the browser offers to canvas.getContext.
WebglEnvs == {"absent", "nocontext", "throws", "ok"}

\* Keys the user may press.
Keys == {"p", "x", "q"}

\* A user gesture on a control, as the DOM events it dispatches in order: a
\* mouse click, or a tap on a touch screen (touch events, then the
\* compatibility click).
Gestures == {"click", "tap"}

GestureEvents(g) ==
    IF g = "tap" THEN <<"touchstart", "touchend", "click">> ELSE <<"click">>

\* ------------------------------------------------------------ pure helpers

\* Variant: the context returned by getContext is not examined.
isWebglSupportedNoContextCheck(env) ==
    IF env # "absent" THEN TRUE ELSE FALSE

isWebglSupported(env) ==
    IF env # "absent"
    THEN IF env = "ok" THEN TRUE ELSE FALSE
    ELSE FALSE

bikeDirectionsIcon == "/icons/map/bike_directions.png"

walkDirectionsIcon == "/icons/map/walk_directions.png"

routeProfileOptions ==
    [FOOT |-> "foot", BIKE |-> "bike", DRIVING |-> "driving", CAR |-> "car"]

routingAPI == "https://routing.openstreetmap.de/routed-"

routingAPIVersion == "/route/v1/"

routeProfileMap ==
    << [api |-> routingAPI \o routeProfileOptions.FOOT \o routingAPIVersion,
        profile |-> routeProfileOptions.FOOT],
       [api |-> routingAPI \o routeProfileOptions.BIKE \o routingAPIVersion,
        profile |-> routeProfileOptions.BIKE],
       [api |-> routingAPI \o routeProfileOptions.DRIVING \o routingAPIVersion,
        profile |-> routeProfileOptions.DRIVING] >>

\* The value of Array.prototype.find when no item matches.
undefinedRoute == [api |-> "undefined", profile |-> "undefined"]

walkingRouteProfileControl ==
    [id |-> routeProfileOptions.FOOT, image |-> walkDirectionsIcon]

bikeRouteProfileControl ==
    [id |-> routeProfileOptions.BIKE, image |-> bikeDirectionsIcon]

\* The innerHTML of a control that has not been built.
NoMarkup == [id |-> "", image |-> ""]

mapProfile(profile) ==
    LET hits == {i \in DOMAIN routeProfileMap :
                    routeProfileMap[i].profile = profile}
    IN  IF hits = {}
        THEN undefinedRoute
        ELSE routeProfileMap[CHOOSE i \in hits : \A j \in hits : i <= j]

\* -------------------------------------------------------------------- state

VARIABLES
    webgl,            \* the browser's WebGL capability (environment)
    innerWidth,       \* window.innerWidth (environment)
    mounted,          \* onMounted has run
    alerted,          \* alert(maplibre_gl_alert) was shown
    mapState,         \* "none" | "constructed" | "loaded"
    markerExists,     \* the event-location marker was added to the map
    iconLoad,         \* map.loadImage promise: "none"|"pending"|"resolved"|"null"|"rejected"
    images,           \* image ids registered with map.addImage
    currentProfile,   \* let currentProfile
    selectedRoute,    \* let selectedRoute
    cycleVisibility,  \* layout visibility of "cycle-layer" ("absent" without a map)
    directions,       \* let directions: index into sessions, 0 before load
    sessions,         \* every MapLibreGlDirections instance constructed so far
    switchHTML,       \* innerHTML of the profile-switch control's div
    switchListeners,  \* listeners on the profile-switch div
    clearHTML,        \* innerHTML of the clear-directions div ("" when not built)
    clearListeners,   \* listeners on the clear-directions div
    keydownListeners, \* keydown listeners on document
    markerListeners,  \* listeners on marker.getElement()
    hovering,         \* the pointer is over the marker (environment)
    bindWidth,        \* history: innerWidth when the controls were added
    lastEvent,        \* history: the task that produced this state
    pre,              \* history: what was observable before that task
    steps,            \* history: the primitive operations that task performed
    peak,             \* history: the most sessions live at any point of that task
    stale,            \* history: that task wrote to a destroyed session
    hist              \* history: what was observable after load and each toggle

vars == << webgl, innerWidth, mounted, alerted, mapState, markerExists,
           iconLoad, images, currentProfile, selectedRoute, cycleVisibility,
           directions, sessions, switchHTML, switchListeners, clearHTML,
           clearListeners, keydownListeners, markerListeners, hovering,
           bindWidth, lastEvent, pre, steps, peak, stale, hist >>

\* The part of the state the listeners' closures read and write, as one value
\* that a run of listeners threads through.
Heap ==
    [cp |-> currentProfile, sr |-> selectedRoute, vis |-> cycleVisibility,
     dir |-> directions, sess |-> sessions, html |-> switchHTML,
     marker |-> markerListeners, steps |-> <<>>, hist |-> hist,
     peak |-> Cardinality({i \in DOMAIN sessions : sessions[i].alive}),
     stale |-> FALSE]

Commit(h) ==
    /\ currentProfile' = h.cp
    /\ selectedRoute' = h.sr
    /\ cycleVisibility' = h.vis
    /\ directions' = h.dir
    /\ sessions' = h.sess
    /\ switchHTML' = h.html
    /\ markerListeners' = h.marker
    /\ steps' = h.steps
    /\ hist' = h.hist
    /\ peak' = h.peak
    /\ stale' = h.stale

\* Sessions that were constructed and not destroyed.
Live(sess) == {i \in DOMAIN sess : sess[i].alive}

\* What a user or a test can observe of a heap.
Observe(h) ==
    [cp |-> h.cp, html |-> h.html, vis |-> h.vis, dir |-> h.dir,
     profile |-> h.sr.profile,
     api |-> IF h.dir = 0 THEN "" ELSE h.sess[h.dir].api,
     alive |-> IF h.dir = 0 THEN FALSE ELSE h.sess[h.dir].alive,
     interactive |-> IF h.dir = 0 THEN FALSE ELSE h.sess[h.dir].interactive,
     segments |-> IF h.dir = 0 THEN 0 ELSE h.sess[h.dir].segments,
     live |-> Cardinality(Live(h.sess))]

Event(name, arg) == [name |-> name, arg |-> arg]

\* The history of a task that runs none of the listeners.
NoListenerRan ==
    /\ steps' = <<>>
    /\ peak' = Cardinality(Live(sessions))
    /\ stale' = FALSE

Init ==
    /\ webgl \in WebglEnvs
    /\ innerWidth \in Widths
    /\ mounted = FALSE
    /\ alerted = FALSE
    /\ mapState = "none"
    /\ markerExists = FALSE
    /\ iconLoad = "none"
    /\ images = {}
    /\ currentProfile = walkingRouteProfileControl
    /\ selectedRoute = mapProfile(routeProfileOptions.FOOT)
    /\ cycleVisibility = "absent"
    /\ directions = 0
    /\ sessions = <<>>
    /\ switchHTML = NoMarkup
    /\ switchListeners = <<>>
    /\ clearHTML = ""
    /\ clearListeners = <<>>
    /\ keydownListeners = <<>>
    /\ markerListeners = <<>>
    /\ hovering = FALSE
    /\ bindWidth = 0
    /\ lastEvent = Event("setup", "")
    /\ steps = <<>>
    /\ peak = 0
    /\ stale = FALSE
    /\ hist = <<>>
    /\ pre = Observe(Heap)

\* --------------------------------------------- the directions engine's API

\* new MapLibreGlDirections(map, {...route, requestOptions, layers}): a session
\* attached to the map, bound to the route's endpoint, not yet interactive and
\* with nothing drawn.
MapLibreGlDirections(route) ==
    [alive |-> TRUE, api |-> route.api, profile |-> route.profile,
     interactive |-> FALSE, segments |-> 0]

\* Variant: the old session is left attached to the map.
destroySkipped(h) ==
    [h EXCEPT !.steps = Append(@, "destroy")]

\* directions.destroy(): the session's layers, source and map listeners are
\* removed.
destroy(h) ==
    [h EXCEPT !.sess[h.dir] =
                  [@ EXCEPT !.alive = FALSE, !.interactive = FALSE,
                            !.segments = 0],
              !.steps = Append(@, "destroy")]

\* directions.clear(): the drawn route is removed, the session stays.
clear(h) ==
    [h EXCEPT !.sess[h.dir].segments = 0,
              !.stale = @ \/ ~h.sess[h.dir].alive,
              !.steps = Append(@, "clear")]

\* session.interactive = v on the session with index id.
writeInteractive(h, id, v) ==
    [h EXCEPT !.sess[id].interactive = v,
              !.stale = @ \/ ~h.sess[id].alive,
              !.steps = Append(@, IF v THEN "interactive=true"
                                       ELSE "interactive=false")]

\* directions.interactive = v
setInteractive(h, v) == writeInteractive(h, h.dir, v)

\* ------------------------------------------------- module-level functions

\* Variant: the layer is chosen as if the profile had already been flipped.
toggleLayerHandlerAfterFlip(h) ==
    [h EXCEPT !.vis = IF h.cp = walkingRouteProfileControl
                      THEN "none"
                      ELSE "visible",
              !.steps = Append(@, "setLayoutProperty")]

toggleLayerHandler(h) ==
    [h EXCEPT !.vis = IF h.cp = walkingRouteProfileControl
                      THEN "visible"
                      ELSE "none",
              !.steps = Append(@, "setLayoutProperty")]

\* Variant: the else branch assigns the bike control too.
routeProfileHandlerSticks(h) ==
    [h EXCEPT !.cp = IF h.cp = walkingRouteProfileControl
                     THEN bikeRouteProfileControl
                     ELSE bikeRouteProfileControl]

routeProfileHandler(h) ==
    [h EXCEPT !.cp = IF h.cp = walkingRouteProfileControl
                     THEN bikeRouteProfileControl
                     ELSE walkingRouteProfileControl]

\* Variant: the two branches are exchanged.
setSelectedRouteSwapped(h) ==
    [h EXCEPT !.sr = IF h.cp = walkingRouteProfileControl
                     THEN mapProfile(routeProfileOptions.BIKE)
                     ELSE mapProfile(routeProfileOptions.FOOT)]

\* Variant: the else branch selects the third descriptor of the table.
setSelectedRouteDriving(h) ==
    [h EXCEPT !.sr = IF h.cp = walkingRouteProfileControl
                     THEN mapProfile(routeProfileOptions.FOOT)
                     ELSE mapProfile(routeProfileOptions.DRIVING)]

setSelectedRoute(h) ==
    [h EXCEPT !.sr = IF h.cp = walkingRouteProfileControl
                     THEN mapProfile(routeProfileOptions.FOOT)
                     ELSE mapProfile(routeProfileOptions.BIKE)]

\* ------------------------------------------------------------ the listeners

Listener(type, fn, bound) == [type |-> type, fn |-> fn, bound |-> bound]

\* marker.getElement().addEventListener("mouseenter" ...) and ("mouseleave" ...):
\* two more listeners each time; bound records the session live at bind time.
bindMarkerListeners(h) ==
    [h EXCEPT !.marker = @ \o << Listener("mouseenter", "markerEnter", h.dir),
                                 Listener("mouseleave", "markerLeave", h.dir) >>,
              !.steps = Append(@, "bind")]

\* let directions = new MapLibreGlDirections(...) and what follows it in the
\* load callback.
loadDirections(h) ==
    LET h1 == setSelectedRoute(h)
        h2 == [h1 EXCEPT !.sess = Append(@, MapLibreGlDirections(h1.sr)),
                         !.dir = Len(h1.sess) + 1,
                         !.peak = IF Cardinality(Live(h1.sess)) + 1 > @
                                  THEN Cardinality(Live(h1.sess)) + 1 ELSE @,
                         !.steps = Append(@, "create")]
        h3 == setInteractive(h2, TRUE)
    IN  bindMarkerListeners(h3)

\* div.innerHTML = routeProfileHandler()
renderSwitch(h) ==
    LET h1 == routeProfileHandler(h)
    IN  [h1 EXCEPT !.html = h1.cp, !.steps = Append(@, "render")]

\* Variant: the new session is constructed but not assigned to the directions
\* variable the listeners read (a declaration shadowing it).
recreateDirectionsShadowed(h) ==
    LET h1 == setSelectedRoute(h)
    IN  [h1 EXCEPT !.sess = Append(@, MapLibreGlDirections(h1.sr)),
                   !.peak = IF Cardinality(Live(h1.sess)) + 1 > @
                            THEN Cardinality(Live(h1.sess)) + 1 ELSE @,
                   !.steps = Append(@, "create")]

\* directions = new MapLibreGlDirections(map, {...(selectedRoute =
\* setSelectedRoute()), ...}) in updateSelectedProfile.
recreateDirections(h) ==
    LET h1 == setSelectedRoute(h)
    IN  [h1 EXCEPT !.sess = Append(@, MapLibreGlDirections(h1.sr)),
                   !.dir = Len(h1.sess) + 1,
                   !.peak = IF Cardinality(Live(h1.sess)) + 1 > @
                            THEN Cardinality(Live(h1.sess)) + 1 ELSE @,
                   !.steps = Append(@, "create")]

\* What is observable once the load callback or a toggle has finished.
Record(h) == [h EXCEPT !.hist = Append(@, Observe(h))]

\* Variant: the waypoints of the old session are handed to the new one, which
\* draws the route again.
updateSelectedProfileKeepsRoute(h) ==
    LET h1 == toggleLayerHandler(h)
        h2 == destroy(h1)
        h3 == renderSwitch(h2)
        h4 == recreateDirections(h3)
        h5 == setInteractive(h4, TRUE)
        h6 == bindMarkerListeners(h5)
        h7 == [h6 EXCEPT !.sess[h6.dir].segments = h.sess[h.dir].segments]
    IN  Record(h7)

\* Variant: the new session is constructed first and the old one destroyed
\* afterwards.
updateSelectedProfileCreateFirst(h) ==
    LET h1 == toggleLayerHandler(h)
        h2 == renderSwitch(h1)
        h3 == recreateDirections(h2)
        h4 == [h3 EXCEPT !.sess[h.dir] =
                             [@ EXCEPT !.alive = FALSE, !.interactive = FALSE,
                                       !.segments = 0],
                         !.steps = Append(@, "destroy")]
        h5 == setInteractive(h4, TRUE)
        h6 == bindMarkerListeners(h5)
    IN  Record(h6)

\* Variant: the layer is switched at the end of the handler.
updateSelectedProfileLayerLast(h) ==
    LET h1 == destroy(h)
        h2 == renderSwitch(h1)
        h3 == recreateDirections(h2)
        h4 == setInteractive(h3, TRUE)
        h5 == bindMarkerListeners(h4)
        h6 == [toggleLayerHandler([h5 EXCEPT !.cp = h.cp]) EXCEPT !.cp = h5.cp]
    IN  Record(h6)

updateSelectedProfile(h) ==
    LET h1 == toggleLayerHandler(h)
        h2 == destroy(h1)
        h3 == renderSwitch(h2)
        h4 == recreateDirections(h3)
        h5 == setInteractive(h4, TRUE)
        h6 == bindMarkerListeners(h5)
    IN  Record(h6)

\* document keydown listener of the profile switch.
profileHotkey(key, h) ==
    IF key = "p" THEN updateSelectedProfile(h) ELSE h

\* Variant: the clear control tears the session down.
clearHandlerDestroys(h) == destroy(h)

\* () => directions.clear()
clearHandler(h) == clear(h)

\* document keydown listener of the clear control.
clearHotkey(key, h) ==
    IF key = "x" THEN clear(h) ELSE h

\* Variant: the hover listener flips the flag.
markerEnterToggles(h) == setInteractive(h, ~h.sess[h.dir].interactive)

\* () => { directions.interactive = false }
markerEnter(h) == setInteractive(h, FALSE)

\* () => { directions.interactive = true }
markerLeave(h) == setInteractive(h, TRUE)

\* Variant: the marker listeners hold the session that was live when they
\* were bound instead of reading the directions variable.
InvokeBoundSession(l, key, h) ==
    CASE l.fn = "updateSelectedProfile" -> updateSelectedProfile(h)
      [] l.fn = "profileHotkey" -> profileHotkey(key, h)
      [] l.fn = "clear" -> clearHandler(h)
      [] l.fn = "clearHotkey" -> clearHotkey(key, h)
      [] l.fn = "markerEnter" -> writeInteractive(h, l.bound, FALSE)
      [] l.fn = "markerLeave" -> writeInteractive(h, l.bound, TRUE)

\* One listener called with an event.
Invoke(l, key, h) ==
    CASE l.fn = "updateSelectedProfile" -> updateSelectedProfile(h)
      [] l.fn = "profileHotkey" -> profileHotkey(key, h)
      [] l.fn = "clear" -> clearHandler(h)
      [] l.fn = "clearHotkey" -> clearHotkey(key, h)
      [] l.fn = "markerEnter" -> markerEnter(h)
      [] l.fn = "markerLeave" -> markerLeave(h)

\* An event of one type dispatched to a target: its listeners of that type run
\* in registration order.
RECURSIVE Dispatch(_, _, _, _)
Dispatch(ls, type, key, h) ==
    IF ls = <<>>
    THEN h
    ELSE Dispatch(Tail(ls), type, key,
                  IF Head(ls).type = type THEN Invoke(Head(ls), key, h) ELSE h)

\* The events of one gesture dispatched one after the other.
RECURSIVE DispatchAll(_, _, _)
DispatchAll(ls, types, h) ==
    IF types = <<>>
    THEN h
    ELSE DispatchAll(ls, Tail(types), Dispatch(ls, Head(types), "", h))

\* ----------------------------------------------------- the custom controls

\* Variant: the comparison is <=.
switchOnAddInclusive(width) ==
    IF width <= SwitchBreakpoint
    THEN [div |-> << Listener("touched", "updateSelectedProfile", 0),
                     Listener("click", "updateSelectedProfile", 0) >>,
          doc |-> <<>>]
    ELSE [div |-> << Listener("click", "updateSelectedProfile", 0) >>,
          doc |-> << Listener("keydown", "profileHotkey", 0) >>]

\* Variant: the narrow branch listens for touchend, an event a tap dispatches.
switchOnAddTouchend(width) ==
    IF width < SwitchBreakpoint
    THEN [div |-> << Listener("touchend", "updateSelectedProfile", 0),
                     Listener("click", "updateSelectedProfile", 0) >>,
          doc |-> <<>>]
    ELSE [div |-> << Listener("click", "updateSelectedProfile", 0) >>,
          doc |-> << Listener("keydown", "profileHotkey", 0) >>]

\* onAdd of the profile-switch control: the div's listeners and the document's.
switchOnAdd(width) ==
    IF width < SwitchBreakpoint
    THEN [div |-> << Listener("touched", "updateSelectedProfile", 0),
                     Listener("click", "updateSelectedProfile", 0) >>,
          doc |-> <<>>]
    ELSE [div |-> << Listener("click", "updateSelectedProfile", 0) >>,
          doc |-> << Listener("keydown", "profileHotkey", 0) >>]

\* onAdd of the clear-directions control.
clearOnAdd(width) ==
    IF width < ClearBreakpoint
    THEN [html |-> "clearDirectionsControl",
          div |-> << Listener("touchend", "clear", 0),
                     Listener("click", "clear", 0) >>,
          doc |-> <<>>]
    ELSE [html |-> "clearDirectionsHotkeyControl",
          div |-> << Listener("click", "clear", 0) >>,
          doc |-> << Listener("keydown", "clearHotkey", 0) >>]

\* ------------------------------------------------------------------ actions

\* Variant: the directions session is constructed in onMounted, outside the
\* load callback.
MountEager ==
    /\ ~mounted
    /\ mounted' = TRUE
    /\ IF ~isWebglSupported(webgl)
       THEN /\ alerted' = TRUE
            /\ NoListenerRan
            /\ UNCHANGED << mapState, markerExists, iconLoad, cycleVisibility,
                            currentProfile, selectedRoute, directions,
                            sessions, switchHTML, markerListeners, hist >>
       ELSE /\ mapState' = "constructed"
            /\ markerExists' = TRUE
            /\ iconLoad' = "pending"
            /\ Commit(loadDirections([Heap EXCEPT !.vis = "none"]))
            /\ UNCHANGED alerted
    /\ lastEvent' = Event("mount", "")
    /\ pre' = Observe(Heap)
    /\ UNCHANGED << webgl, innerWidth, images, switchListeners, clearHTML,
                    clearListeners, keydownListeners, hovering, bindWidth >>

\* onMounted
Mount ==
    /\ ~mounted
    /\ mounted' = TRUE
    /\ IF ~isWebglSupported(webgl)
       THEN /\ alerted' = TRUE
            /\ UNCHANGED << mapState, markerExists, iconLoad, cycleVisibility >>
       ELSE /\ mapState' = "constructed"
            /\ cycleVisibility' = "none"
            /\ markerExists' = TRUE
            /\ iconLoad' = "pending"
            /\ UNCHANGED alerted
    /\ lastEvent' = Event("mount", "")
    /\ pre' = Observe(Heap)
    /\ NoListenerRan
    /\ UNCHANGED << webgl, innerWidth, images, currentProfile, selectedRoute,
                    directions, sessions, switchHTML, switchListeners,
                    clearHTML, clearListeners, keydownListeners,
                    markerListeners, hovering, bindWidth, hist >>

\* Variant: the callback registers the image without testing it.
ImageSettlesNoNullCheck ==
    /\ iconLoad = "pending"
    /\ \E outcome \in {"resolved", "null", "rejected"} :
          /\ iconLoad' = outcome
          /\ images' = IF outcome # "rejected"
                       THEN images \cup {"route-direction-arrow"}
                       ELSE images
          /\ lastEvent' = Event("image", outcome)
    /\ pre' = Observe(Heap)
    /\ NoListenerRan
    /\ UNCHANGED << webgl, innerWidth, mounted, alerted, mapState,
                    markerExists, currentProfile, selectedRoute,
                    cycleVisibility, directions, sessions, switchHTML,
                    switchListeners, clearHTML, clearListeners,
                    keydownListeners, markerListeners, hovering, bindWidth,
                    hist >>

\* map.loadImage(...).then(image => ...): the promise settles.
ImageSettles ==
    /\ iconLoad = "pending"
    /\ \E outcome \in {"resolved", "null", "rejected"} :
          /\ iconLoad' = outcome
          /\ images' = IF outcome = "resolved"
                       THEN images \cup {"route-direction-arrow"}
                       ELSE images
          /\ lastEvent' = Event("image", outcome)
    /\ pre' = Observe(Heap)
    /\ NoListenerRan
    /\ UNCHANGED << webgl, innerWidth, mounted, alerted, mapState,
                    markerExists, currentProfile, selectedRoute,
                    cycleVisibility, directions, sessions, switchHTML,
                    switchListeners, clearHTML, clearListeners,
                    keydownListeners, markerListeners, hovering, bindWidth,
                    hist >>

\* map.on("load", ...)
MapLoad ==
    /\ mapState = "constructed"
    /\ mapState' = "loaded"
    /\ LET h1 == loadDirections(Heap)
           sw == switchOnAdd(innerWidth)
           cl == clearOnAdd(innerWidth)
           h2 == [h1 EXCEPT !.html = h1.cp]
       IN  /\ Commit(Record(h2))
           /\ switchListeners' = sw.div
           /\ clearHTML' = cl.html
           /\ clearListeners' = cl.div
           /\ keydownListeners' = keydownListeners \o sw.doc \o cl.doc
    /\ bindWidth' = innerWidth
    /\ lastEvent' = Event("load", "")
    /\ pre' = Observe(Heap)
    /\ UNCHANGED << webgl, innerWidth, mounted, alerted, markerExists,
                    iconLoad, images, hovering >>

\* What every user event leaves alone.
EventFrame ==
    UNCHANGED << webgl, innerWidth, mounted, alerted, mapState, markerExists,
                 iconLoad, images, switchListeners, clearHTML, clearListeners,
                 keydownListeners, bindWidth >>

\* A click or a tap on the profile-switch control.
SwitchGesture ==
    /\ mapState = "loaded"
    /\ \E g \in Gestures :
          LET h == DispatchAll(switchListeners, GestureEvents(g), Heap)
          IN  /\ Len(h.sess) <= MaxSessions
              /\ Commit(h)
              /\ lastEvent' = Event("switch", g)
    /\ pre' = Observe(Heap)
    /\ UNCHANGED hovering
    /\ EventFrame

\* A click or a tap on the clear-directions control.
ClearGesture ==
    /\ mapState = "loaded"
    /\ \E g \in Gestures :
          /\ Commit(DispatchAll(clearListeners, GestureEvents(g), Heap))
          /\ lastEvent' = Event("clear", g)
    /\ pre' = Observe(Heap)
    /\ UNCHANGED hovering
    /\ EventFrame

\* A key pressed anywhere in the document.
KeyDown ==
    /\ \E key \in Keys :
          LET h == Dispatch(keydownListeners, "keydown", key, Heap)
          IN  /\ Len(h.sess) <= MaxSessions
              /\ Commit(h)
              /\ lastEvent' = Event("keydown", key)
    /\ pre' = Observe(Heap)
    /\ UNCHANGED hovering
    /\ EventFrame

\* The pointer enters the marker's element.
MarkerMouseEnter ==
    /\ markerExists
    /\ Commit(Dispatch(markerListeners, "mouseenter", "", Heap))
    /\ hovering' = TRUE
    /\ lastEvent' = Event("mouseenter", "")
    /\ pre' = Observe(Heap)
    /\ EventFrame

\* The pointer leaves the marker's element.
MarkerMouseLeave ==
    /\ markerExists
    /\ Commit(Dispatch(markerListeners, "mouseleave", "", Heap))
    /\ hovering' = FALSE
    /\ lastEvent' = Event("mouseleave", "")
    /\ pre' = Observe(Heap)
    /\ EventFrame

\* The user edits the route on the map: the live, interactive session draws
\* the route the routing service returns.
DrawRoute ==
    /\ directions # 0
    /\ sessions[directions].alive
    /\ sessions[directions].interactive
    /\ \E n \in 1..MaxSegments :
          /\ n # sessions[directions].segments
          /\ sessions' = [sessions EXCEPT ![directions].segments = n]
    /\ lastEvent' = Event("draw", "")
    /\ pre' = Observe(Heap)
    /\ NoListenerRan
    /\ UNCHANGED << currentProfile, selectedRoute, cycleVisibility,
                    directions, switchHTML, markerListeners, hovering, hist >>
    /\ EventFrame

\* Variant: the controls follow the window's width: a resize registers the
\* listeners of the new width in place of the old ones.
ResizeRebinds ==
    /\ \E w \in Widths \ {innerWidth} :
          /\ innerWidth' = w
          /\ IF mapState = "loaded"
             THEN /\ switchListeners' = switchOnAdd(w).div
                  /\ clearHTML' = clearOnAdd(w).html
                  /\ clearListeners' = clearOnAdd(w).div
                  /\ keydownListeners' = switchOnAdd(w).doc \o clearOnAdd(w).doc
             ELSE UNCHANGED << switchListeners, clearHTML, clearListeners,
                               keydownListeners >>
    /\ lastEvent' = Event("resize", "")
    /\ pre' = Observe(Heap)
    /\ NoListenerRan
    /\ UNCHANGED << webgl, mounted, alerted, mapState, markerExists,
                    iconLoad, images, currentProfile, selectedRoute,
                    cycleVisibility, directions, sessions, switchHTML,
                    markerListeners, hovering, bindWidth, hist >>

\* The window is resized.
Resize ==
    /\ \E w \in Widths \ {innerWidth} : innerWidth' = w
    /\ lastEvent' = Event("resize", "")
    /\ pre' = Observe(Heap)
    /\ NoListenerRan
    /\ UNCHANGED << webgl, mounted, alerted, mapState, markerExists,
                    iconLoad, images, currentProfile, selectedRoute,
                    cycleVisibility, directions, sessions, switchHTML,
                    switchListeners, clearHTML, clearListeners,
                    keydownListeners, markerListeners, hovering, bindWidth,
                    hist >>

Next ==
    \/ Mount
    \/ ImageSettles
    \/ MapLoad
    \/ SwitchGesture
    \/ ClearGesture
    \/ KeyDown
    \/ MarkerMouseEnter
    \/ MarkerMouseLeave
    \/ DrawRoute
    \/ Resize

Spec == Init /\ [][Next]_vars

TypeOK ==
    /\ directions \in 0..MaxSessions
    /\ Len(sessions) <= MaxSessions

\* ------------------------------------------------------- claim vocabulary

Loaded == mapState = "loaded"

FootApi == mapProfile(routeProfileOptions.FOOT).api

BikeApi == mapProfile(routeProfileOptions.BIKE).api

DrivingApi == mapProfile(routeProfileOptions.DRIVING).api

Now == Observe(Heap)

LiveCount == Cardinality(Live(sessions))

HasListener(ls, type, fn) == \E i \in DOMAIN ls : ls[i].type = type /\ ls[i].fn = fn

\* The state was produced by an activation of the profile switch: a click or a
\* tap on the control, or the 'p' key where the shortcut is registered.
ProfileActivation ==
    /\ Loaded
    /\ \/ lastEvent.name = "switch"
       \/ /\ lastEvent = Event("keydown", "p")
          /\ HasListener(keydownListeners, "keydown", "profileHotkey")

\* The state was produced by an activation of clear-directions.
ClearActivation ==
    /\ Loaded
    /\ \/ lastEvent.name = "clear"
       \/ /\ lastEvent = Event("keydown", "x")
          /\ HasListener(keydownListeners, "keydown", "clearHotkey")

\* The profile, layer and endpoint of an observation.
Triple(o) == << o.cp, o.html, o.vis, o.api >>

FootTriple == << walkingRouteProfileControl, walkingRouteProfileControl,
                 "none", FootApi >>

BikeTriple == << bikeRouteProfileControl, bikeRouteProfileControl,
                 "visible", BikeApi >>

\* ------------------------------------------------------------------ claims

\* C1: immediately after every profile-switch activation (click, tap or the
\* 'p' shortcut) exactly one directions session is live, and it is the one
\* the directions variable refers to.
C1_OneLiveSessionAfterActivation ==
    ProfileActivation => LiveCount = 1 /\ Live(sessions) = {directions}

C1_Witness ==
    /\ ProfileActivation
    /\ Len(sessions) >= 3
    /\ pre.dir # directions
    /\ LiveCount = 1

\* C2: in every state after map load the control's markup, the cycle layer's
\* visibility and the live session's endpoint agree: foot, hidden, foot
\* endpoint, or bike, visible, bike endpoint.
C2_ProfileLayerEndpointConsistent ==
    Loaded => /\ Now.alive
              /\ Triple(Now) \in {FootTriple, BikeTriple}
              /\ Now.profile = Now.cp.id

C2_Witness ==
    /\ Loaded
    /\ ProfileActivation
    /\ Triple(Now) = BikeTriple
    /\ Triple(pre) = FootTriple

\* C3: load yields FOOT, layer hidden, foot endpoint; the first activation
\* yields BIKE, layer visible, bike endpoint, the second FOOT again; every
\* activation destroys the session live before it and creates a session that
\* never existed before, bound to the other profile's endpoint.
C3_ToggleScenario ==
    /\ ~Loaded => /\ currentProfile = walkingRouteProfileControl
                  /\ cycleVisibility \in {"absent", "none"}
                  /\ selectedRoute.api = FootApi
    /\ Len(hist) >= 1 => Triple(hist[1]) = FootTriple /\ hist[1].alive
    /\ Len(hist) >= 2 => Triple(hist[2]) = BikeTriple /\ hist[2].alive
    /\ Len(hist) >= 3 => Triple(hist[3]) = FootTriple /\ hist[3].alive
    /\ \A i \in 2..Len(hist) :
          /\ \A j \in 1..(i - 1) : hist[j].dir # hist[i].dir
          /\ ~sessions[hist[i - 1].dir].alive
          /\ hist[i].live = 1
          /\ hist[i].api # hist[i - 1].api
          /\ hist[i].api \in {FootApi, BikeApi}
    /\ ProfileActivation => /\ Now = hist[Len(hist)]
                            /\ Len(hist) >= 2
                            /\ pre.dir = hist[Len(hist) - 1].dir

C3_Witness ==
    /\ ProfileActivation
    /\ Len(hist) = 3
    /\ Triple(Now) = FootTriple
    /\ ~sessions[1].alive
    /\ ~sessions[2].alive

\* C4: an even number of activations, with clear, hover, leave and other
\* events interleaved, restores the profile, the layer visibility and the
\* endpoint: observations an even number of activations apart agree, and
\* nothing but an activation moves the current values.
C4_EvenTogglesRestore ==
    /\ \A i, j \in DOMAIN hist :
          (i < j /\ (j - i) % 2 = 0) => Triple(hist[i]) = Triple(hist[j])
    /\ Loaded => Triple(Now) = Triple(hist[Len(hist)])

C4_Witness ==
    /\ Len(hist) >= 4
    /\ lastEvent.name \in {"clear", "mouseenter", "mouseleave"}
    /\ Triple(Now) = Triple(hist[2])
    /\ Triple(Now) # Triple(hist[1])

\* C5: an activation of clear-directions leaves the profile, the layer
\* visibility, the endpoint and the identity of the live session as they
\* were, leaves the session alive, and leaves it with no drawn segment.
C5_ClearFrame ==
    ClearActivation => /\ Triple(Now) = Triple(pre)
                       /\ Now.profile = pre.profile
                       /\ Now.dir = pre.dir
                       /\ Now.alive
                       /\ Now.live = pre.live
                       /\ Now.segments = 0

C5_Witness ==
    /\ ClearActivation
    /\ pre.segments > 0
    /\ Now.segments = 0
    /\ Triple(Now) = BikeTriple

\* C6: after load a marker mouseenter leaves the live session not
\* interactive and a mouseleave leaves it interactive, whatever the flag was
\* before and however many toggles preceded; neither changes the profile,
\* the layer visibility or the session.
C6_HoverSetsInteractive ==
    (Loaded /\ lastEvent.name \in {"mouseenter", "mouseleave"}) =>
        /\ Now.interactive = (lastEvent.name = "mouseleave")
        /\ Triple(Now) = Triple(pre)
        /\ Now.dir = pre.dir
        /\ Now.alive
        /\ Now.live = pre.live

C6_Witness ==
    /\ Loaded
    /\ lastEvent.name = "mouseenter"
    /\ pre.dir # 0
    /\ ~pre.interactive
    /\ ~Now.interactive
    /\ Len(sessions) >= 3

\* C7: controls bound below width 768 register no keydown listener, and no
\* key press toggles the profile or clears the route, while a click or a tap
\* on the controls does; controls bound at 768 or more react to a click and
\* to the shortcuts ('p' toggles, 'x' clears).
C7_WidthSelectsHandlers ==
    Loaded =>
        /\ lastEvent.name = "switch" =>
              /\ Now.cp # pre.cp
              /\ Now.dir # pre.dir
        /\ lastEvent.name = "clear" => Now.segments = 0
        /\ HasListener(switchListeners, "click", "updateSelectedProfile")
        /\ HasListener(clearListeners, "click", "clear")
        /\ bindWidth < 768 =>
              /\ keydownListeners = <<>>
              /\ lastEvent.name = "keydown" => Now = pre
        /\ bindWidth >= 768 =>
              /\ lastEvent = Event("keydown", "p") =>
                    /\ Now.cp # pre.cp
                    /\ Now.dir # pre.dir
              /\ lastEvent = Event("keydown", "x") =>
                    /\ Now.segments = 0
                    /\ Now.dir = pre.dir
                    /\ Now.cp = pre.cp

C7_Witness ==
    /\ Loaded
    /\ bindWidth = 767
    /\ lastEvent = Event("keydown", "x")
    /\ pre.segments > 0
    /\ Now.segments > 0

\* C8: when the browser offers no usable WebGL context, mounting shows the
\* alert and nothing else: in every later state there is no map, marker,
\* session, control or listener, and the profile variables keep their
\* initial values whatever the user does.
C8_InertWithoutWebgl ==
    (mounted /\ webgl # "ok") =>
        /\ alerted
        /\ mapState = "none"
        /\ ~markerExists
        /\ cycleVisibility = "absent"
        /\ iconLoad = "none"
        /\ images = {}
        /\ directions = 0
        /\ sessions = <<>>
        /\ switchHTML = NoMarkup
        /\ clearHTML = ""
        /\ switchListeners = <<>>
        /\ clearListeners = <<>>
        /\ keydownListeners = <<>>
        /\ markerListeners = <<>>
        /\ currentProfile = walkingRouteProfileControl
        /\ selectedRoute = mapProfile(routeProfileOptions.FOOT)

C8_Witness ==
    /\ mounted
    /\ webgl = "nocontext"
    /\ alerted
    /\ lastEvent = Event("keydown", "p")

\* C9: until the map has loaded there is no session, no custom control and
\* no click or keydown listener, and no event moves the profile or the cycle
\* layer; the session and the controls appear in the load callback only.
C9_NothingBeforeLoad ==
    /\ ~Loaded =>
          /\ directions = 0
          /\ sessions = <<>>
          /\ switchHTML = NoMarkup
          /\ clearHTML = ""
          /\ switchListeners = <<>>
          /\ clearListeners = <<>>
          /\ keydownListeners = <<>>
          /\ markerListeners = <<>>
          /\ currentProfile = walkingRouteProfileControl
          /\ cycleVisibility = (IF mapState = "none" THEN "absent" ELSE "none")
    /\ (Loaded /\ pre.dir = 0) => lastEvent.name = "load"

C9_Witness ==
    /\ mapState = "constructed"
    /\ lastEvent = Event("keydown", "p")
    /\ hovering

\* C10: the selected profile is always the walking or the bike control, the
\* selected route is always the foot or the bike descriptor, and every
\* session ever constructed is bound to the foot or the bike endpoint:
\* nothing selects DRIVING or CAR.
C10_TwoStateCycle ==
    /\ currentProfile \in {walkingRouteProfileControl, bikeRouteProfileControl}
    /\ selectedRoute \in {mapProfile(routeProfileOptions.FOOT),
                          mapProfile(routeProfileOptions.BIKE)}
    /\ \A i \in DOMAIN sessions :
          /\ sessions[i].api \in {FootApi, BikeApi}
          /\ sessions[i].api # DrivingApi
          /\ sessions[i].profile \in {routeProfileOptions.FOOT,
                                      routeProfileOptions.BIKE}

C10_Witness ==
    /\ Len(sessions) >= 3
    /\ ProfileActivation
    /\ sessions[1].api = FootApi
    /\ sessions[2].api = BikeApi
    /\ sessions[3].api = FootApi

\* Positions of an operation in the operations of the last task.
At(op) == {i \in DOMAIN steps : steps[i] = op}

\* Every position of a comes before every position of b, and both occur.
Before(a, b) ==
    /\ At(a) # {}
    /\ At(b) # {}
    /\ \A i \in At(a) : \A j \in At(b) : i < j

\* C11: at every point of every task, the steps inside the toggle handler
\* included, at most one session is alive, and in a toggle every construction
\* of a session comes after the destruction of the one before it.
C11_DestroyBeforeCreate ==
    /\ peak <= 1
    /\ LiveCount <= 1
    /\ ProfileActivation =>
          \A j \in At("create") :
              \E i \in At("destroy") :
                  /\ i < j
                  /\ \A k \in At("create") : ~(i < k /\ k < j)

C11_Witness ==
    /\ ProfileActivation
    /\ Len(sessions) >= 3
    /\ pre.live = 1
    /\ peak = 1
    /\ Before("destroy", "create")

\* C12 as stated: in an activation the layer is set, then the session is
\* destroyed and recreated, then the markup is re-rendered, then the marker
\* listeners are bound, so the new session exists before the re-render.
C12_SessionBeforeRender ==
    ProfileActivation =>
        /\ Before("setLayoutProperty", "destroy")
        /\ Before("destroy", "create")
        /\ Before("create", "render")
        /\ Before("render", "bind")

\* C12 amended: in an activation the layer is set, the old session is
\* destroyed, the markup is re-rendered (which flips the profile), the new
\* session is constructed and made interactive, and the marker listeners are
\* bound, in this order: the re-render comes before the new session exists.
C12_RenderBeforeSession ==
    ProfileActivation =>
        steps = << "setLayoutProperty", "destroy", "render", "create",
                   "interactive=true", "bind" >>

C12_Witness ==
    /\ ProfileActivation
    /\ Len(sessions) >= 3
    /\ Before("render", "create")
    /\ Before("destroy", "render")

\* C13: the listeners are those of the width at which the controls were
\* added, for both controls alike, whatever the width of the window is now: a
\* later resize across 768 changes neither the listeners nor which key
\* presses toggle the profile or clear the route.
C13_BindTimeChoice ==
    Loaded =>
        /\ HasListener(keydownListeners, "keydown", "profileHotkey")
              <=> bindWidth >= 768
        /\ HasListener(keydownListeners, "keydown", "clearHotkey")
              <=> bindWidth >= 768
        /\ HasListener(switchListeners, "touched", "updateSelectedProfile")
              <=> bindWidth < 768
        /\ HasListener(clearListeners, "touchend", "clear")
              <=> bindWidth < 768
        /\ Len(switchListeners) = (IF bindWidth < 768 THEN 2 ELSE 1)
        /\ Len(clearListeners) = (IF bindWidth < 768 THEN 2 ELSE 1)
        /\ Len(keydownListeners) = (IF bindWidth < 768 THEN 0 ELSE 2)
        /\ clearHTML = (IF bindWidth < 768 THEN "clearDirectionsControl"
                                           ELSE "clearDirectionsHotkeyControl")
        /\ lastEvent = Event("keydown", "p") =>
              (Now.cp # pre.cp <=> bindWidth >= 768)
        /\ (lastEvent = Event("keydown", "x") /\ pre.segments > 0) =>
              (Now.segments = 0 <=> bindWidth >= 768)

C13_Witness ==
    /\ Loaded
    /\ bindWidth = 1024
    /\ innerWidth = 767
    /\ lastEvent = Event("keydown", "p")
    /\ Now.cp # pre.cp
    /\ pre.cp = bikeRouteProfileControl

\* C14: after load, while the pointer is over the marker the live session is
\* not interactive, also when the profile was toggled or the map finished
\* loading during the hover.
C14_HoverSuspendsInteractivity ==
    (Loaded /\ hovering) => ~Now.interactive

\* C15: one activation of the profile switch (a click, a tap, or one press of
\* 'p' where the shortcut is registered) runs the toggle exactly once: one
\* re-render, one new session, the profile flipped once.
C15_OneTransitionPerActivation ==
    ProfileActivation =>
        /\ Cardinality(At("render")) = 1
        /\ Cardinality(At("create")) = 1
        /\ Cardinality(At("destroy")) = 1
        /\ Len(sessions) = pre.dir + 1
        /\ directions = pre.dir + 1
        /\ Len(hist) = directions
        /\ Now.cp # pre.cp

C15_Witness ==
    /\ ProfileActivation
    /\ bindWidth = 767
    /\ lastEvent = Event("switch", "tap")
    /\ HasListener(switchListeners, "touched", "updateSelectedProfile")
    /\ directions = pre.dir + 1
    /\ pre.cp = walkingRouteProfileControl
    /\ Now.cp = bikeRouteProfileControl

\* C16: the icon load settles independently of everything else: settling
\* changes nothing but the registered images (the arrow is registered exactly
\* when the load resolved with an image), and after load the clear control
\* and the profile switch carry their listeners and act on a live session
\* whatever the state of the icon load.
C16_IconLoadIndependent ==
    /\ lastEvent.name = "image" => (Now = pre /\ steps = <<>> /\ ~stale)
    /\ images = (IF iconLoad = "resolved" THEN {"route-direction-arrow"} ELSE {})
    /\ (mapState = "none") <=> (iconLoad = "none")
    /\ Loaded => /\ HasListener(switchListeners, "click", "updateSelectedProfile")
                 /\ HasListener(clearListeners, "click", "clear")
                 /\ Now.alive
    /\ (ProfileActivation \/ ClearActivation) => iconLoad # "none"

\* The icon load resolves after a toggle that ran while it was pending.
C16_Witness ==
    /\ Loaded
    /\ lastEvent = Event("image", "resolved")
    /\ Len(sessions) >= 2
    /\ pre.segments > 0
    /\ Now = pre
    /\ images = {"route-direction-arrow"}

\* C17: the load callback takes the component from no session to a live
\* session on the foot endpoint with the cycle layer hidden; a state with a
\* session is never followed by one without; and in every state after load
\* the profile switch and the clear control carry their click listeners and
\* have a live session to act on.
C17_ActiveForever ==
    /\ lastEvent.name = "load" =>
          /\ pre.dir = 0
          /\ pre.live = 0
          /\ pre.vis = "none"
          /\ Triple(Now) = FootTriple
          /\ Now.alive
    /\ sessions # <<>> => Loaded
    /\ pre.dir # 0 => (Loaded /\ directions # 0 /\ Now.alive)
    /\ Loaded =>
          /\ directions = Len(sessions)
          /\ Now.alive
          /\ switchListeners # <<>>
          /\ clearListeners # <<>>
          /\ \A i \in DOMAIN switchListeners :
                switchListeners[i].fn = "updateSelectedProfile"
          /\ \A i \in DOMAIN clearListeners : clearListeners[i].fn = "clear"

C17_Witness ==
    /\ Loaded
    /\ Len(sessions) >= 3
    /\ lastEvent.name = "clear"
    /\ pre.dir = directions
    /\ Now.alive

\* Marker listeners of one event type.
MarkerCount(type) ==
    Cardinality({i \in DOMAIN markerListeners : markerListeners[i].type = type})

\* C18: no task ever writes interactive on, or clears, a destroyed session:
\* every marker listener bound at load or at an earlier toggle, and every
\* clear listener, acts on the session that is live when it runs, so a
\* destroyed session stays not interactive and without a route.
C18_HandlersActOnLiveSession ==
    /\ ~stale
    /\ \A i \in DOMAIN sessions :
          ~sessions[i].alive => (~sessions[i].interactive /\ sessions[i].segments = 0)
    /\ (Loaded /\ lastEvent.name = "mouseenter") =>
          Cardinality(At("interactive=false")) = MarkerCount("mouseenter")
    /\ (Loaded /\ lastEvent.name = "mouseleave") =>
          Cardinality(At("interactive=true")) = MarkerCount("mouseleave")

C18_Witness ==
    /\ Loaded
    /\ lastEvent.name = "mouseleave"
    /\ Len(sessions) >= 3
    /\ \E i \in DOMAIN markerListeners :
          /\ markerListeners[i].bound # directions
          /\ ~sessions[markerListeners[i].bound].alive
    /\ Cardinality(At("interactive=true")) >= 3
    /\ ~stale

\* C19: after any sequence of toggles the marker carries exactly one
\* mouseenter and one mouseleave listener.
C19_OneHoverHandlerEach ==
    Loaded => (MarkerCount("mouseenter") = 1 /\ MarkerCount("mouseleave") = 1)

\* C20: immediately after every activation of the profile switch the live
\* session is a new one with no drawn route, whatever the previous session
\* had drawn.
C20_RouteDoesNotSurviveToggle ==
    ProfileActivation =>
        /\ Now.segments = 0
        /\ directions # pre.dir
        /\ hist[Len(hist)].segments = 0

C20_Witness ==
    /\ ProfileActivation
    /\ pre.segments > 0
    /\ pre.alive
    /\ ~sessions[pre.dir].alive
    /\ Now.segments = 0

====
